---- MODULE Spec2Model ----
(***************************************************************************)
(* Model of src/app.py: a module body of five statements (import, app     *)
(* construction, route registration, entry-point guard, app.run) and the  *)
(* request handling of the Flask application it builds.                    *)
(*                                                                         *)
(* The module body reads the global name _name_ (lines 2 and 17) and      *)
(* never binds it.  Python resolves a global name in the namespace the    *)
(* module body is executed in, so what those two reads yield is decided   *)
(* by the launcher.  Init enumerates the launches: the script run         *)
(* directly, the module imported by a WSGI launcher, and the source       *)
(* executed in a namespace prepared by a host (runpy.run_path with        *)
(* init_globals), which is the only way _name_ can be bound.               *)
(***************************************************************************)
EXTENDS Integers, Sequences, FiniteSets, TLC

VARIABLES launch, globals, pc, exc, app, sock, server, reqs, issued, refused,
          log, effects, overlapped

vars == <<launch, globals, pc, exc, app, sock, server, reqs, issued, refused,
          log, effects, overlapped>>

(* ---------------------------- bounds ----------------------------------- *)

NumClients == 2
MaxRequests == 3

Clients == 1..NumClients

(* Methods and paths a client may put on a request line. *)
Methods == {"GET", "HEAD", "OPTIONS", "POST", "PUT", "DELETE", "PATCH"}
Paths == {"/", "/home"}

(* ------------------------ name resolution ------------------------------ *)

Unbound == "<unbound>"

(* Values a host may pre-bind _name_ to before executing the source. *)
HostNames == {"_main_", "__main__", "app"}

(* The namespace the module body starts in, per launch. *)
LaunchGlobals(l, v) ==
    CASE l = "direct" -> ("__name__" :> "__main__")
      [] l = "import" -> ("__name__" :> "app")
      [] l = "hosted" -> ("__name__" :> "__main__") @@ ("_name_" :> v)

(* Mutant: an unbound name silently evaluates to the guard's literal. *)
LookupDefaulting(ns, n) == IF n \in DOMAIN ns THEN ns[n] ELSE "_main_"

(* LOAD_NAME: the value bound to n, or Unbound (which raises NameError). *)
Lookup(ns, n) == IF n \in DOMAIN ns THEN ns[n] ELSE Unbound

Bind(ns, n, v) == (n :> v) @@ ns

(* The identifier read on lines 2 and 17, and the literal of line 17. *)
NameRef == "_name_"
MainLiteral == "_main_"

(* ------------------------- the application ----------------------------- *)

NoApp == [constructed |-> FALSE, import_name |-> "", url_map |-> {},
          view_functions |-> {}]

(* Flask(import_name): no rules, no view functions. *)
NewApp(name) == [constructed |-> TRUE, import_name |-> name, url_map |-> {},
                 view_functions |-> {}]

(* Mutant: the route is registered under another path. *)
RoutePathOther == "/home"

(* The rule string of @app.route('/'). *)
RoutePath == "/"

(* Mutant: the decorator is given methods=['GET', 'POST']. *)
RouteMethodsWithPost == {"GET", "POST", "HEAD", "OPTIONS"}

(* No methods argument: GET, plus the HEAD and OPTIONS Flask adds. *)
RouteMethods == {"GET", "HEAD", "OPTIONS"}

RouteRule == [rule |-> RoutePath, endpoint |-> "home", methods |-> RouteMethods]

(* Mutant: a second rule sends /home to the same view. *)
AddUrlRuleAlias(a, r) ==
    [a EXCEPT !.url_map = @ \cup {r, [r EXCEPT !.rule = "/home"]},
              !.view_functions = @ \cup {r.endpoint}]

(* app.route(rule)(f): add the rule and remember the view function. *)
AddUrlRule(a, r) ==
    [a EXCEPT !.url_map = @ \cup {r},
              !.view_functions = @ \cup {r.endpoint}]

(* ----------------------------- home() ---------------------------------- *)

NL == "\n"

(* Mutant: the heading lost its comma. *)
homeTypo ==
    [type |-> "str",
     value |-> << NL, "    ", "<html>",
                  NL, "      ", "<head>",
                  NL, "        ", "<title>", "Hello, Flask!", "</title>",
                  NL, "      ", "</head>",
                  NL, "      ", "<body>",
                  NL, "        ", "<h1>", "Hello World!", "</h1>",
                  NL, "        ", "<p>", "Welcome to your Flask-powered webpage!", "</p>",
                  NL, "      ", "</body>",
                  NL, "    ", "</html>",
                  NL, "    " >>]

(* Mutant: the view returns a dict, which Flask serialises as JSON. *)
homeDict == [type |-> "dict", value |-> << "Hello, World!" >>]

(* The return value of home(): a str, the literal of lines 5-15, kept as   *)
(* its sequence of tags, text runs and whitespace runs.                    *)
home ==
    [type |-> "str",
     value |-> << NL, "    ", "<html>",
                  NL, "      ", "<head>",
                  NL, "        ", "<title>", "Hello, Flask!", "</title>",
                  NL, "      ", "</head>",
                  NL, "      ", "<body>",
                  NL, "        ", "<h1>", "Hello, World!", "</h1>",
                  NL, "        ", "<p>", "Welcome to your Flask-powered webpage!", "</p>",
                  NL, "      ", "</body>",
                  NL, "    ", "</html>",
                  NL, "    " >>]

(* What home() does besides returning: nothing. *)
homeEffects == {}

(* Mutant: handling a request for an unknown path unregisters the rules. *)
AfterRequestDropping(a, rq) ==
    IF rq.path # RoutePath THEN [a EXCEPT !.url_map = {}] ELSE a

(* Mutant: the handler rebinds a module-level table on every call. *)
AfterRequestForgetting(a, rq) == [a EXCEPT !.view_functions = {}]

(* The application object after a request was handled: home() assigns to   *)
(* nothing, so it is the object before.                                    *)
AfterRequest(a, rq) == a

(* ------------------------ request dispatch ----------------------------- *)

NotFound == "<404>"
MethodNotAllowed == "<405>"

(* url_map matching: the endpoint of the rule whose path and methods fit,  *)
(* else 405 when only the path fits, else 404.                             *)
Match(a, method, path) ==
    LET atPath == {r \in a.url_map : r.rule = path} IN
    IF atPath = {} THEN NotFound
    ELSE IF \E r \in atPath : method \in r.methods
         THEN (CHOOSE r \in atPath : method \in r.methods).endpoint
         ELSE MethodNotAllowed

Allowed(a, path) == UNION {r.methods : r \in {s \in a.url_map : s.rule = path}}

NotFoundPage == << "<title>", "404 Not Found", "</title>" >>
MethodNotAllowedPage == << "<title>", "405 Method Not Allowed", "</title>" >>

HtmlType == "text/html; charset=utf-8"
JsonType == "application/json"

(* make_response(rv): a str becomes a 200 text/html response, a dict JSON. *)
MakeResponse(rv) ==
    [status |-> 200,
     ctype |-> IF rv.type = "str" THEN HtmlType ELSE JsonType,
     body |-> rv.value,
     allow |-> {}]

(* The response to a request whose routing gave endpoint ep. *)
Response(a, method, path, ep) ==
    CASE ep = NotFound ->
           [status |-> 404, ctype |-> HtmlType, body |-> NotFoundPage, allow |-> {}]
      [] ep = MethodNotAllowed ->
           [status |-> 405, ctype |-> HtmlType, body |-> MethodNotAllowedPage,
            allow |-> Allowed(a, path)]
      [] OTHER ->
           IF method = "OPTIONS"
           THEN [status |-> 200, ctype |-> HtmlType, body |-> << >>,
                 allow |-> Allowed(a, path)]
           ELSE IF method = "HEAD"
                THEN [MakeResponse(home) EXCEPT !.body = << >>]
                ELSE MakeResponse(home)

(* ------------------------------ app.run -------------------------------- *)

(* Mutant: host omitted, Flask's default loopback address. *)
RunHostLoopback == "127.0.0.1"

(* host='0.0.0.0' on line 18. *)
RunHost == "0.0.0.0"

(* No port argument: Flask's default. *)
DefaultPort == 5000

Unbind == << >>

NoServer == [running |-> FALSE, debug |-> FALSE, threaded |-> FALSE]

Idle == [st |-> "idle", method |-> "", path |-> "", endpoint |-> ""]

(* ------------------------------- Init ---------------------------------- *)

Init ==
    /\ launch \in {"direct", "import", "hosted"}
    /\ \E v \in HostNames : globals = LaunchGlobals(launch, v)
    /\ pc = "line1"
    /\ exc = "none"
    /\ app = NoApp
    /\ sock = Unbind
    /\ server = NoServer
    /\ reqs = [c \in Clients |-> Idle]
    /\ issued = 0
    /\ refused = 0
    /\ log = << >>
    /\ effects = {}
    /\ overlapped = FALSE

(* ------------------------- the module body ----------------------------- *)

(* line 1: from flask import Flask *)
ImportFlask ==
    /\ pc = "line1"
    /\ globals' = Bind(globals, "Flask", "<class Flask>")
    /\ pc' = "line2"
    /\ UNCHANGED <<launch, exc, app, sock, server, reqs, issued, refused, log, effects, overlapped>>

(* line 2: app = Flask(_name_) *)
ConstructApp ==
    /\ pc = "line2"
    /\ IF Lookup(globals, NameRef) = Unbound
       THEN /\ exc' = "NameError"
            /\ pc' = "crashed"
            /\ UNCHANGED <<globals, app>>
       ELSE /\ app' = NewApp(Lookup(globals, NameRef))
            /\ globals' = Bind(globals, "app", "<Flask>")
            /\ pc' = "line3"
            /\ UNCHANGED exc
    /\ UNCHANGED <<launch, sock, server, reqs, issued, refused, log, effects, overlapped>>

(* lines 3-15: @app.route('/') def home(): ... *)
RegisterHome ==
    /\ pc = "line3"
    /\ app' = AddUrlRule(app, RouteRule)
    /\ globals' = Bind(globals, "home", "<function home>")
    /\ pc' = "line17"
    /\ UNCHANGED <<launch, exc, sock, server, reqs, issued, refused, log, effects, overlapped>>

(* line 17: if _name_ == '_main_': *)
Guard ==
    /\ pc = "line17"
    /\ IF Lookup(globals, NameRef) = Unbound
       THEN exc' = "NameError" /\ pc' = "crashed"
       ELSE /\ pc' = IF Lookup(globals, NameRef) = MainLiteral
                     THEN "line18" ELSE "exited"
            /\ UNCHANGED exc
    /\ UNCHANGED <<launch, globals, app, sock, server, reqs, issued, refused, log, effects, overlapped>>

(* line 18: app.run(debug=True, host='0.0.0.0') binds and serves. *)
Run ==
    /\ pc = "line18"
    /\ sock' = << RunHost, DefaultPort >>
    /\ server' = [running |-> TRUE, debug |-> TRUE, threaded |-> TRUE]
    /\ pc' = "serving"
    /\ UNCHANGED <<launch, globals, exc, app, reqs, issued, refused, log, effects, overlapped>>

(* The serving process is interrupted: app.run returns, the module ends. *)
Shutdown ==
    /\ pc = "serving"
    /\ pc' = "exited"
    /\ sock' = Unbind
    /\ server' = NoServer
    /\ reqs' = [c \in Clients |-> Idle]
    /\ UNCHANGED <<launch, globals, exc, app, issued, refused, log, effects, overlapped>>

(* ------------------------- request handling ---------------------------- *)

(* A client connects to the listening socket and sends a request line. *)
Connect(c, m, p) ==
    /\ sock # Unbind
    /\ reqs[c].st = "idle"
    /\ issued < MaxRequests
    /\ reqs' = [reqs EXCEPT ![c] = [st |-> "accepted", method |-> m, path |-> p,
                                    endpoint |-> ""]]
    /\ issued' = issued + 1
    /\ UNCHANGED <<launch, globals, pc, exc, app, sock, server, refused, log, effects, overlapped>>

(* Nothing listens: the connection is refused and no response exists. *)
Refuse(c, m, p) ==
    /\ sock = Unbind
    /\ issued < MaxRequests
    /\ issued' = issued + 1
    /\ refused' = refused + 1
    /\ UNCHANGED <<launch, globals, pc, exc, app, sock, server, reqs, log, effects, overlapped>>

(* The request's thread matches the URL against the application's rules. *)
Route(c) ==
    /\ pc = "serving"
    /\ reqs[c].st = "accepted"
    /\ reqs' = [reqs EXCEPT ![c].st = "routed",
                            ![c].endpoint = Match(app, reqs[c].method, reqs[c].path)]
    /\ UNCHANGED <<launch, globals, pc, exc, app, sock, server, issued, refused, log, effects, overlapped>>

(* Requests other than c's that are in flight. *)
Others(c) == Cardinality({d \in Clients : d # c /\ reqs[d].st # "idle"})

(* The thread calls the view (or the framework's default) and answers. *)
Respond(c) ==
    /\ pc = "serving"
    /\ reqs[c].st = "routed"
    /\ LET rq == reqs[c]
           rs == Response(app, rq.method, rq.path, rq.endpoint)
       IN /\ log' = Append(log, [method |-> rq.method, path |-> rq.path,
                                 status |-> rs.status, ctype |-> rs.ctype,
                                 body |-> rs.body, allow |-> rs.allow])
          /\ app' = AfterRequest(app, rq)
          /\ effects' = effects \cup
                (IF rq.endpoint \in app.view_functions /\ rq.method # "OPTIONS"
                 THEN homeEffects ELSE {})
          /\ overlapped' = (overlapped \/
                (rq.method = "GET" /\ rq.path = RoutePath /\ Others(c) > 0))
    /\ reqs' = [reqs EXCEPT ![c] = Idle]
    /\ UNCHANGED <<launch, globals, pc, exc, sock, server, issued, refused>>

Next ==
    \/ ImportFlask
    \/ ConstructApp
    \/ RegisterHome
    \/ Guard
    \/ Run
    \/ Shutdown
    \/ \E c \in Clients, m \in Methods, p \in Paths : Connect(c, m, p)
    \/ \E c \in Clients, m \in Methods, p \in Paths : Refuse(c, m, p)
    \/ \E c \in Clients : Route(c)
    \/ \E c \in Clients : Respond(c)

Spec == Init /\ [][Next]_vars

(* The interpreter executes the module body statement by statement and    *)
(* does not stop between statements.                                       *)
ModuleBody == ImportFlask \/ ConstructApp \/ RegisterHome \/ Guard \/ Run

FairSpec == Init /\ [][Next]_vars /\ WF_vars(ModuleBody)

(* ------------------------------ claims --------------------------------- *)

IsRootGet(e) == e.method = "GET" /\ e.path = "/"
Failed(e) == e.status \in {404, 405}

Contains(s, sub) ==
    \E i \in 1..(Len(s) - Len(sub) + 1) : SubSeq(s, i, i + Len(sub) - 1) = sub

TitleText == << "<title>", "Hello, Flask!", "</title>" >>
HeadingText == << "<h1>", "Hello, World!", "</h1>" >>
WelcomeText == << "<p>", "Welcome to your Flask-powered webpage!", "</p>" >>

HtmlCompatible == {"text/html", "text/html; charset=utf-8"}

(* C1: the program run directly eventually reaches the state in which the  *)
(* server listens (and can then answer GET / with 200).                    *)
C1_DirectRunListens == (launch = "direct") ~> (pc = "serving" /\ sock # Unbind)

Alone(m, p) ==
    LET a == AddUrlRule(NewApp(MainLiteral), RouteRule)
    IN  Response(a, m, p, Match(a, m, p))

C10_DirectRunNeverServes ==
    launch = "direct" =>
        /\ pc \notin {"line18", "serving"}
        /\ sock = Unbind
        /\ ~server.running

C10_Witness ==
    launch = "direct" /\ pc = "crashed" /\ exc = "NameError"

====
